---- MODULE Spec2Model ----
(***************************************************************************)
(* Model of src/openalex.py: the openalex_search tool (endpoint check,     *)
(* parameter defaulting, one HTTP GET, result check) run by several        *)
(* concurrent coroutines over the module-level tables, and the pure        *)
(* formatter format_work / format_works_response.                          *)
(*                                                                         *)
(* Python values are modelled as follows.                                  *)
(*   dict            a function from its keys to its values                *)
(*   JSON value      a record tagged by its kind k, one of "null" "bool"   *)
(*                   "num" "str" "arr" "obj", with the payload in a field  *)
(*                   of its own per kind (b, n, s, a, o)                   *)
(*   str             a string; the text of a JSON body is kept as a        *)
(*                   sequence of characters, where `in` searches it        *)
(*   an exception    a record [k |-> "raised", err |-> class, ...]         *)
(***************************************************************************)
EXTENDS Integers, Sequences, FiniteSets, TLC

(***************************************************************************)
(* Module-level tables.                                                    *)
(***************************************************************************)
OA_API_BASE == "https://api.openalex.org"

USER_AGENT == "openalex-search-app/1.0"

MAILTO_ADDRESS == "openalextest@gmail.com"

ENDPOINTS ==
    [works |-> "/works", authors |-> "/authors", venues |-> "/venues",
     institutions |-> "/institutions", concepts |-> "/concepts", ids |-> "/ids"]

\* The value of PARAMS when the module has been imported.
PARAMS_AtImport ==
    [works   |-> [filter |-> <<"doi", "title", "abstract">>,
                  sort |-> <<"relevance", "date">>, page |-> 1, per_page |-> 10],
     authors |-> [filter |-> <<"orcid", "name">>,
                  sort |-> <<"relevance", "date">>, page |-> 1, per_page |-> 10]]

(***************************************************************************)
(* Python dict and JSON helpers.                                           *)
(***************************************************************************)
EmptyDict == [x \in {} |-> 0]

\* d[key] = value on a dict: overwrite-by-key, every other entry kept.
SetItem(d, key, value) ==
    [x \in (DOMAIN d) \cup {key} |-> IF x = key THEN value ELSE d[x]]

JNull == [k |-> "null"]
JBool(b) == [k |-> "bool", b |-> b]
JNum(n) == [k |-> "num", n |-> n]
JStr(s) == [k |-> "str", s |-> s]
JArr(a) == [k |-> "arr", a |-> a]
JObj(o) == [k |-> "obj", o |-> o]

\* Python truth value of a parsed JSON value (the operand of `not data`).
Truthy(d) ==
    CASE d.k = "null" -> FALSE
      [] d.k = "bool" -> d.b
      [] d.k = "num"  -> d.n # 0
      [] d.k = "str"  -> Len(d.s) > 0
      [] d.k = "arr"  -> Len(d.a) > 0
      [] d.k = "obj"  -> DOMAIN d.o # {}

\* Whether `x in d` is defined for d: it raises TypeError on bool and number.
SupportsIn(d) == d.k \in {"str", "arr", "obj"}

\* t occurs in s as a contiguous run (str.__contains__), strings as character sequences.
IsSubstring(t, s) ==
    \E i \in 1..(Len(s) - Len(t) + 1) : SubSeq(s, i, i + Len(t) - 1) = t

Chars_results == <<"r", "e", "s", "u", "l", "t", "s">>

\* `"results" in d`: key membership for a dict, element equality for a list,
\* substring for a str.
HasResults(d) ==
    CASE d.k = "obj" -> "results" \in DOMAIN d.o
      [] d.k = "arr" -> \E i \in 1..Len(d.a) : d.a[i] = JStr(Chars_results)
      [] d.k = "str" -> IsSubstring(Chars_results, d.s)

\* What a call has come to: nothing yet, a returned value, or an exception.
Pending == [k |-> "pending"]
Returned(value) == [k |-> "returned", value |-> value]
Raised(err, msg) == [k |-> "raised", err |-> err, msg |-> msg]
\* httpx.HTTPStatusError keeps the response: its status and its body.
RaisedStatus(status, body) ==
    [k |-> "raised", err |-> "HTTPStatusError", status |-> status, body |-> body]

(***************************************************************************)
(* Inputs of the model.                                                    *)
(***************************************************************************)
\* The coroutines of openalex_search that may be in flight together; each is
\* reused for a new call once its result has been collected.
Calls == {"c1", "c2"}

Queries == {"q1", "q2"}

\* The six known names and one that is not in ENDPOINTS.
Resources == (DOMAIN ENDPOINTS) \cup {"journals"}

\* The params argument: None, or a dict of the caller.
NoneArg == [none |-> TRUE, d |-> EmptyDict]
DictArg(d) == [none |-> FALSE, d |-> d]
ParamArgs == {NoneArg, DictArg(EmptyDict), DictArg([search |-> "old", page |-> 2])}

Statuses == {100, 200, 204, 301, 404, 500}

ResultsBody == JObj([meta |-> JNum(1), results |-> JArr(<<JObj([title |-> JStr(<<"A">>)])>>)])

\* Parsed bodies: one of each JSON kind, empty and not, with and without "results".
JsonBodies ==
    {JNull, JBool(FALSE), JBool(TRUE), JNum(0), JNum(1),
     JStr(<<>>), JStr(<<"o", "k">>), JStr(<<"n", "o">> \o Chars_results),
     JArr(<<>>), JArr(<<JStr(<<"x">>)>>), JArr(<<JStr(Chars_results)>>),
     JObj(EmptyDict), JObj([meta |-> JNum(1)]), JObj([results |-> JArr(<<>>)]),
     ResultsBody}

\* A response: its status and its body, which is JSON text or is not.
Response(status, isJson, body) == [status |-> status, isJson |-> isJson, body |-> body]

AllResponses ==
    {Response(s, TRUE, b) : s \in Statuses, b \in JsonBodies}
        \cup {Response(s, FALSE, JNull) : s \in Statuses}

\* The responses used when two calls interleave.
Responses ==
    {Response(200, TRUE, ResultsBody), Response(200, TRUE, JObj(EmptyDict)),
     Response(200, FALSE, JNull), Response(404, TRUE, ResultsBody),
     Response(404, TRUE, JObj(EmptyDict)), Response(500, FALSE, JNull),
     Response(301, TRUE, JNull)}

(***************************************************************************)
(* State.                                                                  *)
(***************************************************************************)
VARIABLES
    PARAMS,     \* the module-level default-parameter table (mutable dicts)
    pc,         \* where each coroutine of openalex_search stands
    args,       \* the arguments of each call: query, endpoint, params
    paramsRef,  \* what the local `params` refers to: "PARAMS" or "arg"
    argDict,    \* the caller's dict object of each call
    requests,   \* per call, the HTTP requests issued so far
    response,   \* per call, the response received
    outcome,    \* per call, what the call returned or raised
    fmtPc,      \* the formatter: "off", "ready" (called) or "done"
    fmtData,    \* the argument of format_works_response
    formatted_works, \* its local list of rendered works
    fmtResult   \* what format_works_response returned or raised

searchVars == <<PARAMS, pc, args, paramsRef, argDict, requests, response, outcome>>

fmtVars == <<fmtPc, fmtData, formatted_works, fmtResult>>

vars == <<searchVars, fmtVars>>

NoArgs == [query |-> "", endpoint |-> "", params |-> NoneArg]
NoResponse == Response(0, FALSE, JNull)

InitSearch ==
    /\ PARAMS = PARAMS_AtImport
    /\ pc = [c \in Calls |-> "idle"]
    /\ args = [c \in Calls |-> NoArgs]
    /\ paramsRef = [c \in Calls |-> "unset"]
    /\ argDict = [c \in Calls |-> EmptyDict]
    /\ requests = [c \in Calls |-> <<>>]
    /\ response = [c \in Calls |-> NoResponse]
    /\ outcome = [c \in Calls |-> Pending]

Init ==
    /\ InitSearch
    /\ fmtPc = "off"
    /\ fmtData = EmptyDict
    /\ formatted_works = <<>>
    /\ fmtResult = Pending

\* The dict the local `params` of call c refers to.
Deref(c) ==
    IF paramsRef[c] = "PARAMS" THEN PARAMS[args[c].endpoint] ELSE argDict[c]

\* The GET that fetch_openalex_data hands to the client.
BuildRequest(endpoint, params) ==
    [method |-> "GET", url |-> OA_API_BASE \o "/" \o endpoint,
     headers |-> [UserAgent |-> USER_AGENT, Mailto |-> MAILTO_ADDRESS],
     params |-> params]

\* A raise_for_status that lets every status below 400 through.
RaisesForStatus_ErrorsOnly(status) == status >= 400

\* response.raise_for_status(): TRUE when it raises.
RaisesForStatus(status) == ~(200 <= status /\ status <= 299)

\* An endpoint check that lets every name through.
KnownEndpoint_Any(endpoint) == TRUE

\* `endpoint in ENDPOINTS`.
KnownEndpoint(endpoint) == endpoint \in DOMAIN ENDPOINTS

\* The check of the parsed body at the end of openalex_search.
CheckData(data, query) ==
    IF ~Truthy(data) THEN Raised("ValueError", "No data found for query: " \o query)
    ELSE IF ~SupportsIn(data) THEN Raised("TypeError", "argument of type '" \o data.k \o "' is not iterable")
    ELSE IF ~HasResults(data) THEN Raised("ValueError", "No data found for query: " \o query)
    ELSE Returned(data)

\* What the call makes of a response, from raise_for_status to the return.
Complete(r, query) ==
    IF RaisesForStatus(r.status) THEN RaisedStatus(r.status, r.body)
    ELSE IF ~r.isJson THEN Raised("JSONDecodeError", "")
    ELSE CheckData(r.body, query)

Finish(c, result) ==
    /\ pc' = [pc EXCEPT ![c] = "done"]
    /\ outcome' = [outcome EXCEPT ![c] = result]

\* openalex_search is called; it runs up to its first suspension, the entry
\* of `async with httpx.AsyncClient()` in fetch_openalex_data.  Every
\* `async with` and `await` of the source is taken as a point where the event
\* loop may run another coroutine; between two of them a coroutine runs alone.
Invoke(c, query, endpoint, params) ==
    /\ pc[c] = "idle"
    /\ args' = [args EXCEPT ![c] = [query |-> query, endpoint |-> endpoint, params |-> params]]
    /\ UNCHANGED <<requests, response, fmtVars>>
    /\ IF ~KnownEndpoint(endpoint)
       THEN /\ Finish(c, Raised("ValueError", "Invalid endpoint: " \o endpoint))
            /\ UNCHANGED <<PARAMS, paramsRef, argDict>>
       ELSE IF params.none
       THEN IF endpoint \notin DOMAIN PARAMS
            THEN /\ Finish(c, Raised("KeyError", endpoint))
                 /\ UNCHANGED <<PARAMS, paramsRef, argDict>>
            ELSE /\ paramsRef' = [paramsRef EXCEPT ![c] = "PARAMS"]
                 /\ PARAMS' = [PARAMS EXCEPT ![endpoint] = SetItem(@, "search", query)]
                 /\ pc' = [pc EXCEPT ![c] = "entering"]
                 /\ UNCHANGED <<argDict, outcome>>
       ELSE /\ paramsRef' = [paramsRef EXCEPT ![c] = "arg"]
            /\ argDict' = [argDict EXCEPT ![c] = SetItem(params.d, "search", query)]
            /\ pc' = [pc EXCEPT ![c] = "entering"]
            /\ UNCHANGED <<PARAMS, outcome>>

\* The coroutine resumes with the client open and awaits client.get: the
\* request is built from the dict `params` refers to at this moment.
ClientGet(c) ==
    /\ pc[c] = "entering"
    /\ requests' = [requests EXCEPT
                      ![c] = Append(@, BuildRequest(ENDPOINTS[args[c].endpoint], Deref(c)))]
    /\ pc' = [pc EXCEPT ![c] = "awaiting"]
    /\ UNCHANGED <<PARAMS, args, paramsRef, argDict, response, outcome, fmtVars>>

\* The response arrives; the coroutine runs to its return or its raise.
Respond(c, r) ==
    /\ pc[c] = "awaiting"
    /\ response' = [response EXCEPT ![c] = r]
    /\ Finish(c, Complete(r, args[c].query))
    /\ UNCHANGED <<PARAMS, args, paramsRef, argDict, requests, fmtVars>>

\* The host takes the result; the coroutine and its locals are gone.
Collect(c) ==
    /\ pc[c] = "done"
    /\ pc' = [pc EXCEPT ![c] = "idle"]
    /\ args' = [args EXCEPT ![c] = NoArgs]
    /\ paramsRef' = [paramsRef EXCEPT ![c] = "unset"]
    /\ argDict' = [argDict EXCEPT ![c] = EmptyDict]
    /\ requests' = [requests EXCEPT ![c] = <<>>]
    /\ response' = [response EXCEPT ![c] = NoResponse]
    /\ outcome' = [outcome EXCEPT ![c] = Pending]
    /\ UNCHANGED <<PARAMS, fmtVars>>

Next ==
    \E c \in Calls :
        \/ \E q \in Queries, e \in Resources, p \in ParamArgs : Invoke(c, q, e, p)
        \/ ClientGet(c)
        \/ \E r \in Responses : Respond(c, r)
        \/ Collect(c)

Spec == Init /\ [][Next]_vars

\* One call at a time, over every response of the model.
NextSolo ==
    \/ \E q \in Queries, e \in Resources, p \in ParamArgs : Invoke("c1", q, e, p)
    \/ ClientGet("c1")
    \/ \E r \in AllResponses : Respond("c1", r)
    \/ Collect("c1")

SpecSolo == Init /\ [][NextSolo]_vars

(***************************************************************************)
(* The formatter.  A work is JNull or JObj(dict); the dict maps title,     *)
(* doi, journal and publication_date to strings and authors to JNull or    *)
(* to JArr of author dicts.  A response is a dict whose "results", when    *)
(* present, is JNull or JArr of works.                                     *)
(***************************************************************************)
MaxResults == 2

MaxAuthors == 2

\* d.get(key, default)
Get(d, key, default) == IF key \in DOMAIN d THEN d[key] ELSE default

\* sep.join(strs)
RECURSIVE Join(_, _)
Join(sep, strs) ==
    IF strs = <<>> THEN ""
    ELSE IF Len(strs) = 1 THEN strs[1]
    ELSE strs[1] \o sep \o Join(sep, Tail(strs))

\* [author['name'] for author in authors]
AuthorNames(authors) ==
    IF authors.k # "arr" THEN Raised("TypeError", "'NoneType' object is not iterable")
    ELSE IF \E i \in 1..Len(authors.a) : "name" \notin DOMAIN authors.a[i]
    THEN Raised("KeyError", "name")
    ELSE Returned([i \in 1..Len(authors.a) |-> authors.a[i]["name"]])

format_work(data) ==
    IF ~Truthy(data) THEN Returned("No data found.")
    ELSE LET names == AuthorNames(Get(data.o, "authors", JArr(<<>>)))
         IN  IF names.k = "raised" THEN names
             ELSE Returned(
                    "\n    Title: " \o Get(data.o, "title", "N/A")
                 \o "\n    DOI: " \o Get(data.o, "doi", "N/A")
                 \o "\n    Journal: " \o Get(data.o, "journal", "N/A")
                 \o "\n    Authors: " \o Join(", ", names.value)
                 \o "\n    Publication Date: " \o Get(data.o, "publication_date", "N/A")
                 \o "\n    ")

\* The loop over works: the blocks appended before the first raise, and that
\* raise when there is one.
RECURSIVE RenderWorks(_, _)
RenderWorks(works, done) ==
    IF works = <<>> THEN [blocks |-> done, raised |-> Pending]
    ELSE LET r == format_work(Head(works))
         IN  IF r.k = "raised" THEN [blocks |-> done, raised |-> r]
             ELSE RenderWorks(Tail(works), Append(done, r.value))

\* The return of format_works_response once the loop has ended normally.
WorksSummary(works, blocks) ==
    LET found_works == "Number of works found: " \o ToString(Len(works))
    IN  IF works = <<>> THEN "No works found."
        ELSE Join("\n---\n", blocks) \o "\n" \o found_works

\* Inputs.
AuthorDicts == {[name |-> "X"], [name |-> "Y"], [id |-> "A1"]}

SeqsUpTo(S, n) == UNION {[1..m -> S] : m \in 0..n}

AuthorsValues == {JNull} \cup {JArr(s) : s \in SeqsUpTo(AuthorDicts, MaxAuthors)}

ScalarFields == {"title", "doi", "journal", "publication_date"}

FieldValue(f) ==
    CASE f = "title" -> "A" [] f = "doi" -> "d1" [] f = "journal" -> "J"
      [] f = "publication_date" -> "2020"

ScalarDict(fs) == [f \in fs |-> FieldValue(f)]

\* Every combination of present and missing scalar fields, without authors
\* and with two named authors; and every authors value beside a title or alone.
Works ==
    {JNull}
      \cup {JObj(ScalarDict(fs)) : fs \in SUBSET ScalarFields}
      \cup {JObj(SetItem(ScalarDict(fs), "authors", JArr(<<[name |-> "X"], [name |-> "Y"]>>))) :
                fs \in SUBSET ScalarFields}
      \cup {JObj(SetItem(ScalarDict(fs), "authors", a)) :
                fs \in {{}, {"title"}}, a \in AuthorsValues}

FormatInputs ==
    {EmptyDict, [meta |-> JNum(1)], [results |-> JNull]}
      \cup {[results |-> JArr(ws)] : ws \in SeqsUpTo(Works, MaxResults)}

InitFormat ==
    /\ InitSearch
    /\ fmtPc = "ready"
    /\ fmtData \in FormatInputs
    /\ formatted_works = <<>>
    /\ fmtResult = Pending

\* format_works_response(fmtData), from its first line to its return or raise.
FormatWorksResponse ==
    /\ fmtPc = "ready"
    /\ fmtPc' = "done"
    /\ LET works == Get(fmtData, "results", JArr(<<>>))
       IN  IF works.k # "arr"
           THEN /\ formatted_works' = <<>>
                /\ fmtResult' = Raised("TypeError", "'NoneType' object is not iterable")
           ELSE LET r == RenderWorks(works.a, <<>>)
                IN  /\ formatted_works' = r.blocks
                    /\ fmtResult' = IF r.raised.k = "raised" THEN r.raised
                                    ELSE Returned(WorksSummary(works.a, r.blocks))
    /\ UNCHANGED <<searchVars, fmtData>>

NextFormat == FormatWorksResponse

SpecFormat == InitFormat /\ [][NextFormat]_vars

(***************************************************************************)
(* Properties of openalex_search.                                          *)
(***************************************************************************)
KnownResources == {"works", "authors", "venues", "institutions", "concepts", "ids"}

NoDefaults == {"venues", "institutions", "concepts", "ids"}

Started(c) == pc[c] # "idle"

\* The call has received a response.
Answered(c) == pc[c] = "done" /\ Len(requests[c]) > 0

\* C1: a call whose resource is not one of the six known names fails with
\* the invalid-endpoint ValueError as soon as it starts, whatever the query
\* and the params argument, and has issued no HTTP request.
C1_InvalidResourceFailsBeforeRequest ==
    \A c \in Calls :
        (Started(c) /\ args[c].endpoint \notin KnownResources)
            => /\ pc[c] = "done"
               /\ outcome[c].k = "raised"
               /\ outcome[c].err = "ValueError"
               /\ outcome[c].msg = "Invalid endpoint: " \o args[c].endpoint
               /\ requests[c] = <<>>

C1_Witness ==
    \E c \in Calls :
        /\ pc[c] = "done"
        /\ args[c].endpoint = "journals"
        /\ ~args[c].params.none
        /\ outcome[c].k = "raised"
        /\ outcome[c].err = "ValueError"
        /\ requests[c] = <<>>

\* C2: a call on a known resource without defaults and without a params
\* argument does not crash: it never ends in the KeyError of the table
\* lookup, and when it is over it has sent one request whose parameters are
\* the search key alone, holding the query.
C2_NoDefaultsDoesNotCrash ==
    \A c \in Calls :
        (Started(c) /\ args[c].endpoint \in NoDefaults /\ args[c].params.none)
            => /\ ~(outcome[c].k = "raised" /\ outcome[c].err = "KeyError")
               /\ pc[c] = "done" =>
                    /\ Len(requests[c]) = 1
                    /\ requests[c][1].params = [search |-> args[c].query]

\* C3: the default-parameter table always equals its value at import.
C3_DefaultsNeverChange == PARAMS = PARAMS_AtImport

\* C4: every request a call has issued carries that call's own query as
\* search, however the calls interleave.
C4_RequestCarriesOwnQuery ==
    \A c \in Calls :
        \A i \in 1..Len(requests[c]) :
            requests[c][i].params["search"] = args[c].query

\* C5: a finished call on a known resource has issued exactly one request,
\* and no call ever issues a second one.
C5_ExactlyOneRequest ==
    \A c \in Calls :
        /\ Len(requests[c]) <= 1
        /\ (pc[c] = "done" /\ args[c].endpoint \in KnownResources)
                => Len(requests[c]) = 1

\* C6: a call answered with a status outside 200..299 raises the HTTP status
\* error carrying the status and the body, whatever the body; it returns
\* nothing.
C6_Non2xxRaisesHttpFailure ==
    \A c \in Calls :
        (Answered(c) /\ response[c].status \notin 200..299)
            => /\ outcome[c].k = "raised"
               /\ outcome[c].err = "HTTPStatusError"
               /\ outcome[c].status = response[c].status
               /\ outcome[c].body = response[c].body

C6_Witness ==
    \E c \in Calls :
        /\ Answered(c)
        /\ response[c].status = 404
        /\ response[c].isJson
        /\ response[c].body = ResultsBody
        /\ outcome[c].k = "raised"
        /\ outcome[c].err = "HTTPStatusError"

\* The parsed body is a mapping with a results key.
HasResultsKey(b) == b.k = "obj" /\ "results" \in DOMAIN b.o

\* The parsed body is empty or absent: null, false, zero, or an empty
\* string, list or mapping.
IsEmptyBody(b) ==
    \/ b.k = "null"
    \/ b.k = "bool" /\ ~b.b
    \/ b.k = "num" /\ b.n = 0
    \/ b.k = "str" /\ b.s = <<>>
    \/ b.k = "arr" /\ b.a = <<>>
    \/ b.k = "obj" /\ DOMAIN b.o = {}

\* C7: a call answered 2xx with a JSON body that is empty or has no results
\* key raises the no-data ValueError naming its query; answered with a
\* non-empty body that has a results key, it returns that body unchanged.
C7_EmptyResultOrBodyUnchanged ==
    \A c \in Calls :
        (Answered(c) /\ response[c].status \in 200..299 /\ response[c].isJson)
            => IF IsEmptyBody(response[c].body) \/ ~HasResultsKey(response[c].body)
               THEN /\ outcome[c].k = "raised"
                    /\ outcome[c].err = "ValueError"
                    /\ outcome[c].msg = "No data found for query: " \o args[c].query
               ELSE /\ outcome[c].k = "returned"
                    /\ outcome[c].value = response[c].body

(***************************************************************************)
(* Properties of the formatter.                                            *)
(***************************************************************************)
\* The results of the formatter's argument, an absent key read as empty.
ResultsOf(data) == Get(data, "results", JArr(<<>>))

IsEmptyWork(w) == w.k = "null" \/ (w.k = "obj" /\ DOMAIN w.o = {})

\* C8: without results, or with an empty results sequence, the formatter
\* returns "No works found."; for n >= 1 records every record is rendered
\* (an empty one as "No data found.") and the formatter returns the n
\* renderings in input order joined by "\n---\n", then "\n", then
\* "Number of works found: n".
C8_BlocksJoinedThenCount ==
    (fmtPc = "done" /\ ResultsOf(fmtData).k = "arr") =>
        LET works == ResultsOf(fmtData).a
            n == Len(works)
            rendered == [i \in 1..n |->
                            IF IsEmptyWork(works[i]) THEN "No data found."
                            ELSE format_work(works[i]).value]
        IN  IF n = 0
            THEN fmtResult.k = "returned" /\ fmtResult.value = "No works found."
            ELSE /\ fmtResult.k = "returned"
                 /\ \A i \in 1..n : format_work(works[i]).k = "returned"
                 /\ fmtResult.value = Join("\n---\n", rendered) \o "\n"
                                    \o "Number of works found: " \o ToString(n)

\* C9: the formatter never raises: whatever fields of the response, of its
\* records and of their authors are present or missing, it returns a string.
C9_FormatterNeverRaises == fmtPc = "done" => fmtResult.k = "returned"

\* The value a block shows for a field: the field's value, or N/A when the
\* field is missing; the authors as their names joined by ", ".
Shown(w, f) ==
    IF f \notin DOMAIN w.o THEN "N/A"
    ELSE IF f = "authors"
         THEN Join(", ", [i \in 1..Len(w.o[f].a) |-> w.o[f].a[i]["name"]])
         ELSE w.o[f]

BlockOf(w) ==
    "\n    " \o Join("\n    ", <<"Title: " \o Shown(w, "title"),
                                "DOI: " \o Shown(w, "doi"),
                                "Journal: " \o Shown(w, "journal"),
                                "Authors: " \o Shown(w, "authors"),
                                "Publication Date: " \o Shown(w, "publication_date")>>)
             \o "\n    "

\* C10: the block rendered for a non-empty record is the five lines Title,
\* DOI, Journal, Authors, Publication Date in that order, each missing
\* field shown as N/A and each present field as its value.
C10_MissingFieldsShownAsNA ==
    fmtPc = "done" =>
        \A i \in 1..Len(formatted_works) :
            LET w == ResultsOf(fmtData).a[i]
            IN  ~IsEmptyWork(w) => formatted_works[i] = BlockOf(w)

====
